---- MODULE Spec2Model ----
(***************************************************************************)
(* Model of the DNS-Master test orchestration engine: the App state        *)
(* machine (src/src/app.rs), the interactive loop and the background       *)
(* worker task with its two capacity-1 channels (src/src/main.rs), and the *)
(* outcomes of the two probes (src/src/dns_utils.rs, mirror_utils.rs).     *)
(*                                                                         *)
(* Text is a sequence of character codes, so that parsing, formatting and  *)
(* string comparison are computed.  An Option is a sequence of length <= 1.*)
(* Only IPv4 addresses are modelled; an address is its four octets.        *)
(* Speeds are in units of 0.005 Mbps, so the 0.01 Mbps tolerance is 2.     *)
(* App::tick_count (an animation counter), App::detected_distro (shown     *)
(* only) and App::input's editing state are left out: the text typed is    *)
(* the input of the Enter key.                                             *)
(*                                                                         *)
(* Spec and FairSpec run the whole program.  BestSpec and SortSpec call    *)
(* the public methods of App directly, over more measurement values.       *)
(***************************************************************************)
EXTENDS Integers, Sequences, FiniteSets, TLC

\* ------------------------------------------------------------ bounds ----
\* longest address list given on the command line, before sort + dedup
MaxInitial == 2
\* the operator stops adding addresses at this list length
MaxServers == 2
\* most records in an address file named by --json or --csv
MaxFileRecords == 2

\* ------------------------------------------------ program constants ----
\* tokio::sync::mpsc::channel::<TestTarget>(1), channel::<TestResult>(1)
Capacity == 1
\* (s1 - s2).abs() > 0.01, in units of 0.005 Mbps
Tolerance == 2

None == << >>
Some(x) == << x >>
IsSome(o) == Len(o) > 0
IsNone(o) == Len(o) = 0
Unwrap(o) == o[1]

\* ------------------------------------------------------------- text ----
Dot == 46
Space == 32
Zero == 48

IsDigit(c) == c >= 48 /\ c <= 57

RECURSIVE Digits(_)
\* decimal form of a number, as Display for u8 writes it
Digits(n) == IF n < 10 THEN << Zero + n >>
             ELSE Digits(n \div 10) \o << Zero + (n % 10) >>

\* IpAddr::to_string for an IPv4 address
IpToString(ip) ==
    Digits(ip[1]) \o << Dot >> \o Digits(ip[2]) \o << Dot >> \o
    Digits(ip[3]) \o << Dot >> \o Digits(ip[4])

RECURSIVE TrimStart(_)
TrimStart(s) == IF s # << >> /\ Head(s) = Space THEN TrimStart(Tail(s)) ELSE s

RECURSIVE TrimEnd(_)
TrimEnd(s) == IF s # << >> /\ s[Len(s)] = Space
              THEN TrimEnd(SubSeq(s, 1, Len(s) - 1)) ELSE s

\* str::trim
Trim(s) == TrimEnd(TrimStart(s))

RECURSIVE SplitDot(_, _)
\* the pieces of s between dots; cur is the piece being read
SplitDot(s, cur) ==
    IF s = << >> THEN << cur >>
    ELSE IF Head(s) = Dot THEN << cur >> \o SplitDot(Tail(s), << >>)
    ELSE SplitDot(Tail(s), Append(cur, Head(s)))

RECURSIVE DecValue(_, _)
DecValue(s, acc) == IF s = << >> THEN acc
                    ELSE DecValue(Tail(s), acc * 10 + (Head(s) - Zero))

\* one octet of a dotted quad: 1 to 3 digits, no leading zero, at most 255
OctetOk(p) ==
    /\ Len(p) >= 1 /\ Len(p) <= 3
    /\ \A i \in 1..Len(p) : IsDigit(p[i])
    /\ (Len(p) > 1 => p[1] # Zero)
    /\ DecValue(p, 0) <= 255

\* str::parse::<IpAddr>: Some(address) or None
ParseIp(s) ==
    LET parts == SplitDot(s, << >>) IN
    IF Len(parts) = 4 /\ \A i \in 1..4 : OctetOk(parts[i])
    THEN Some(<< DecValue(parts[1], 0), DecValue(parts[2], 0),
                 DecValue(parts[3], 0), DecValue(parts[4], 0) >>)
    ELSE None

\* ------------------------------------------------------- comparison ----
\* Ordering: -1 Less, 0 Equal, 1 Greater
CmpInt(a, b) == IF a < b THEN -1 ELSE IF a > b THEN 1 ELSE 0

Reverse(c) == 0 - c

RECURSIVE CmpSeq(_, _)
\* lexicographic Ord of str and of the octets of an Ipv4Addr
CmpSeq(a, b) ==
    IF a = << >> /\ b = << >> THEN 0
    ELSE IF a = << >> THEN -1
    ELSE IF b = << >> THEN 1
    ELSE IF Head(a) # Head(b) THEN CmpInt(Head(a), Head(b))
    ELSE CmpSeq(Tail(a), Tail(b))

\* Option<T>::cmp and partial_cmp: None is less than every Some
CmpOption(a, b) ==
    IF IsNone(a) /\ IsNone(b) THEN 0
    ELSE IF IsNone(a) THEN -1
    ELSE IF IsNone(b) THEN 1
    ELSE CmpInt(Unwrap(a), Unwrap(b))

\* the comparators handed to sort and sort_by, named by key: the Ord of
\* IpAddr, and the closures of sort_results
\* ordering of the addresses by numeric value of the octets
cmp_ip_numeric(x, y) == CmpSeq(x.ip, y.ip)
cmp_ip(x, y) == CmpSeq(IpToString(x.ip), IpToString(y.ip))
cmp_latency(x, y) == CmpOption(x.latency, y.latency)
cmp_download_speed(x, y) == CmpOption(x.download_speed_mbps, y.download_speed_mbps)
cmp_speed(x, y) == CmpOption(x.speed_mbps, y.speed_mbps)
cmp_name(x, y) == CmpSeq(x.name, y.name)

\* if ascending { cmp } else { cmp.reverse() }
cmp_by(key, ascending, x, y) ==
    LET cmp == CASE key = "IpAddr" -> CmpSeq(x, y)
                 [] key = "Ip" -> cmp_ip(x, y)
                 [] key = "Latency" -> cmp_latency(x, y)
                 [] key = "DownloadSpeed" -> cmp_download_speed(x, y)
                 [] key = "Speed" -> cmp_speed(x, y)
                 [] key = "Name" -> cmp_name(x, y) IN
    IF ascending THEN cmp ELSE Reverse(cmp)

RECURSIVE InsertBy_before_equal(_, _, _, _)
\* an insertion that puts x before the elements equal to it
InsertBy_before_equal(key, ascending, x, s) ==
    IF s = << >> THEN << x >>
    ELSE IF cmp_by(key, ascending, x, Head(s)) <= 0 THEN << x >> \o s
    ELSE << Head(s) >> \o InsertBy_before_equal(key, ascending, x, Tail(s))

RECURSIVE InsertBy_drop_equal(_, _, _, _)
\* an insertion that drops x when an element equal to it is there already
InsertBy_drop_equal(key, ascending, x, s) ==
    IF s = << >> THEN << x >>
    ELSE IF cmp_by(key, ascending, x, Head(s)) < 0 THEN << x >> \o s
    ELSE IF cmp_by(key, ascending, x, Head(s)) = 0 THEN s
    ELSE << Head(s) >> \o InsertBy_drop_equal(key, ascending, x, Tail(s))

RECURSIVE InsertBy(_, _, _, _)
\* x goes after every element that is not greater than it
InsertBy(key, ascending, x, s) ==
    IF s = << >> THEN << x >>
    ELSE IF cmp_by(key, ascending, x, Head(s)) < 0 THEN << x >> \o s
    ELSE << Head(s) >> \o InsertBy(key, ascending, x, Tail(s))

RECURSIVE SortBy_unstable(_, _, _)
\* a sort that is not stable: equal elements come out in reverse order
SortBy_unstable(key, ascending, s) ==
    IF s = << >> THEN << >>
    ELSE InsertBy(key, ascending, Head(s), SortBy_unstable(key, ascending, Tail(s)))

RECURSIVE SortBy(_, _, _)
\* slice::sort and slice::sort_by: the stable sort of s under the comparator
SortBy(key, ascending, s) ==
    IF s = << >> THEN << >>
    ELSE InsertBy(key, ascending, s[Len(s)],
                  SortBy(key, ascending, SubSeq(s, 1, Len(s) - 1)))

RECURSIVE Dedup(_)
\* Vec::dedup: drops consecutive repeats
Dedup(s) ==
    IF Len(s) <= 1 THEN s
    ELSE IF s[1] = s[2] THEN Dedup(Tail(s))
    ELSE << s[1] >> \o Dedup(Tail(s))

\* initial_dns.sort(); initial_dns.dedup();
SortDedup(s) == Dedup(SortBy("IpAddr", TRUE, s))

\* ------------------------------------------------------------ pools ----
\* the addresses the operator and the command line can name
IpPool == { << 1, 1, 1, 1 >>, << 9, 9, 9, 9 >>, << 10, 0, 0, 1 >> }

\* texts the operator types before Enter: each address, one of them padded
\* with blanks, an octet with a leading zero, and the empty text
InputTexts ==
    { IpToString(ip) : ip \in IpPool }
      \cup { << Space >> \o IpToString(<< 9, 9, 9, 9 >>) \o << Space >> }
      \cup { << Zero, Zero + 1, Dot, Zero + 1, Dot, Zero + 1, Dot, Zero + 1 >> }
      \cup { << >> }

SeqsUpTo(S, n) == UNION { [1..k -> S] : k \in 0..n }

\* char::to_lowercase on ASCII, and str::to_lowercase
LowerChar(c) == IF c >= 65 /\ c <= 90 THEN c + 32 ELSE c
ToLower(s) == [i \in 1..Len(s) |-> LowerChar(s[i])]

\* the distro match of load_mirrors, on the lower-cased label
LabelToDistro(label) ==
    LET l == ToLower(label) IN
    CASE l = << 97, 114, 99, 104 >> -> "Arch"
      [] l = << 100, 101, 98, 105, 97, 110 >> -> "Debian"
      [] l = << 117, 98, 117, 110, 116, 117 >> -> "Ubuntu"
      [] l = << 107, 97, 108, 105 >> -> "Kali"
      [] l = << 109, 105, 110, 116 >> -> "Mint"
      [] l = << 109, 97, 110, 106, 97, 114, 111 >> -> "Manjaro"
      [] l = << 100, 111, 99, 107, 101, 114 >> -> "Docker"
      [] l = << 97, 110, 100, 114, 111, 105, 100, 115, 100, 107 >> -> "AndroidSDK"
      [] OTHER -> "Unknown"

RECURSIVE load_mirrors(_, _)
\* load_mirrors: the rows of the file whose distro is the host's or global
load_mirrors(rows, current_distro) ==
    IF rows = << >> THEN << >>
    ELSE LET record == Head(rows)
             distro == LabelToDistro(record.distro)
             rest == load_mirrors(Tail(rows), current_distro) IN
         IF distro = current_distro \/ distro = "Docker" \/ distro = "AndroidSDK"
         THEN << [name |-> record.name, url |-> record.url, distro |-> distro] >> \o rest
         ELSE rest

\* the rows of examples/mirrors.csv: "b" for Ubuntu (listed twice), "ab" for
\* docker, "c" for fedora
MirrorFile ==
    << [name |-> << 98 >>, url |-> "https://b.example/f",
        distro |-> << 85, 98, 117, 110, 116, 117 >>],
       [name |-> << 97, 98 >>, url |-> "https://ab.example/f",
        distro |-> << 100, 111, 99, 107, 101, 114 >>],
       [name |-> << 98 >>, url |-> "https://b.example/f",
        distro |-> << 85, 98, 117, 110, 116, 117 >>],
       [name |-> << 99 >>, url |-> "https://c.example/f",
        distro |-> << 102, 101, 100, 111, 114, 97 >>] >>

\* what detect_distro can return on the hosts considered
HostDistros == { "Ubuntu", "Unknown" }

\* the mirror lists main can end up with: the file loaded for the detected
\* distro, or none when the file cannot be read
LoadedMirrors(distro) == { load_mirrors(MirrorFile, distro), << >> }

\* latencies test_latency measures (in ms)
Latencies == { 1 }

\* speeds test_download_speed and test_mirror_speed measure, in units of
\* 0.005 Mbps
SpeedPool == { 0, 3 }

\* ----------------------------------------------------------- probes ----
DnsTestResult_new(ip) ==
    [tag |-> "Dns", ip |-> ip, latency |-> None,
     download_speed_mbps |-> None, error |-> None]

\* outcome of one stage: Ok(value) is [ok |-> TRUE, val |-> value]
Ok(v) == [ok |-> TRUE, val |-> v]
Err == [ok |-> FALSE, val |-> 0]

\* a probe that goes on to the download stage after the latency stage failed
run_full_test_no_skip(ip, lat, spd, elapsed) ==
    LET r0 == DnsTestResult_new(ip) IN
    IF elapsed
    THEN [r0 EXCEPT !.error = Some("Test timed out (exceeded 7.5s)")]
    ELSE LET r1 == IF lat.ok THEN [r0 EXCEPT !.latency = Some(lat.val)]
                   ELSE [r0 EXCEPT !.error = Some("Latency test failed")] IN
         IF spd.ok
         THEN [r1 EXCEPT !.download_speed_mbps = Some(spd.val)]
         ELSE [r1 EXCEPT !.error = Some("Download test failed")]

\* a deadline that keeps the latency the first stage had measured
run_full_test_keep_latency(ip, lat, spd, elapsed) ==
    LET r0 == DnsTestResult_new(ip) IN
    IF elapsed
    THEN [r0 EXCEPT !.latency = IF lat.ok THEN Some(lat.val) ELSE None,
                    !.error = Some("Test timed out (exceeded 7.5s)")]
    ELSE IF ~lat.ok
    THEN [r0 EXCEPT !.error = Some("Latency test failed")]
    ELSE LET r1 == [r0 EXCEPT !.latency = Some(lat.val)] IN
         IF spd.ok
         THEN [r1 EXCEPT !.download_speed_mbps = Some(spd.val)]
         ELSE [r1 EXCEPT !.error = Some("Download test failed")]

\* run_full_test: lat and spd are the outcomes of test_latency and
\* test_download_speed, elapsed says whether the 7.5 s deadline passed first;
\* an error message is its fixed part, without the cause formatted into it
run_full_test(ip, lat, spd, elapsed) ==
    LET r0 == DnsTestResult_new(ip) IN
    IF elapsed
    THEN [r0 EXCEPT !.error = Some("Test timed out (exceeded 7.5s)")]
    ELSE IF ~lat.ok
    THEN [r0 EXCEPT !.error = Some("Latency test failed")]
    ELSE LET r1 == [r0 EXCEPT !.latency = Some(lat.val)] IN
         IF spd.ok
         THEN [r1 EXCEPT !.download_speed_mbps = Some(spd.val)]
         ELSE [r1 EXCEPT !.error = Some("Download test failed")]

LatencyOutcomes == { Ok(l) : l \in Latencies } \cup { Err }
SpeedOutcomes == { Ok(s) : s \in SpeedPool } \cup { Err }

\* every result run_full_test can return for ip
DnsProbeResults(ip) ==
    { run_full_test(ip, lat, spd, el) :
        lat \in LatencyOutcomes, spd \in SpeedOutcomes, el \in BOOLEAN }

\* the worker's Mirror arm: Ok(speed) or Err(e) of test_mirror_speed, the
\* text of e standing as "Request failed"
mirror_result(m, spd) ==
    IF spd.ok
    THEN [tag |-> "Mirror", name |-> m.name, url |-> m.url,
          speed_mbps |-> Some(spd.val), error |-> None]
    ELSE [tag |-> "Mirror", name |-> m.name, url |-> m.url,
          speed_mbps |-> None, error |-> Some("Request failed")]

MirrorProbeResults(m) == { mirror_result(m, spd) : spd \in SpeedOutcomes }

Probe(target) ==
    IF target.tag = "Dns" THEN DnsProbeResults(target.ip)
    ELSE MirrorProbeResults(target.mirror)

TargetDns(ip) == [tag |-> "Dns", ip |-> ip]
TargetMirror(m) == [tag |-> "Mirror", mirror |-> m]

\* -------------------------------------------------------------- App ----
\* App::default followed by App::new and main's app.mirrors / app.tx / app.rx
App_new(initial_dns, mirror_list) ==
    [mode |-> "Dns", state |-> "Input",
     dns_servers |-> initial_dns, mirrors |-> mirror_list,
     results |-> << >>, mirror_results |-> << >>,
     last_result |-> None, last_mirror_result |-> None,
     best_result |-> None, best_mirror_result |-> None,
     testing_index |-> 0,
     sort_column |-> "DownloadSpeed", sort_ascending |-> FALSE,
     should_quit |-> FALSE,
     error_message |-> None, status_message |-> None,
     tx |-> TRUE]

Contains(s, x) == \E i \in 1..Len(s) : s[i] = x

\* add_dns_server without the contains check
add_dns_server_no_check(a, text) ==
    LET input_value == Trim(text)
        parsed == ParseIp(input_value) IN
    IF IsSome(parsed)
    THEN [a EXCEPT !.dns_servers = Append(@, Unwrap(parsed)),
                   !.error_message = None]
    ELSE [a EXCEPT !.error_message = Some("Invalid IP address")]

\* App::add_dns_server, text being self.input.value(); of the message only
\* its fixed part is kept, not the address or text formatted into it
add_dns_server(a, text) ==
    LET input_value == Trim(text)
        parsed == ParseIp(input_value) IN
    IF IsSome(parsed)
    THEN IF ~Contains(a.dns_servers, Unwrap(parsed))
         THEN [a EXCEPT !.dns_servers = Append(@, Unwrap(parsed)),
                        !.error_message = None]
         ELSE [a EXCEPT !.error_message = Some("is already in the list")]
    ELSE [a EXCEPT !.error_message = Some("Invalid IP address")]

\* App::remove_last_dns_server (Vec::pop)
remove_last_dns_server(a) ==
    IF a.dns_servers = << >> THEN a
    ELSE [a EXCEPT !.dns_servers = SubSeq(@, 1, Len(@) - 1)]

Abs(x) == IF x < 0 THEN 0 - x ELSE x

\* the is_better match of record_result without the 0.01 guard
dns_is_better_no_tolerance(result, best) ==
    LET s1 == result.download_speed_mbps
        s2 == best.download_speed_mbps
        l1 == result.latency
        l2 == best.latency IN
    IF IsSome(s1) /\ IsSome(s2) /\ Unwrap(s1) # Unwrap(s2)
    THEN Unwrap(s1) > Unwrap(s2)
    ELSE IF IsSome(s1) /\ IsNone(s2) THEN TRUE
    ELSE IF IsNone(s1) /\ IsSome(s2) THEN FALSE
    ELSE IF IsSome(l1) /\ IsSome(l2) THEN Unwrap(l1) < Unwrap(l2)
    ELSE IF IsSome(l1) /\ IsNone(l2) THEN TRUE
    ELSE FALSE

\* an is_better that looks at the latency before the throughput
dns_is_better_latency_first(result, best) ==
    LET s1 == result.download_speed_mbps
        s2 == best.download_speed_mbps
        l1 == result.latency
        l2 == best.latency IN
    IF IsSome(l1) /\ IsSome(l2) /\ Unwrap(l1) # Unwrap(l2)
    THEN Unwrap(l1) < Unwrap(l2)
    ELSE IF IsSome(s1) /\ IsSome(s2) /\ Abs(Unwrap(s1) - Unwrap(s2)) > Tolerance
    THEN Unwrap(s1) > Unwrap(s2)
    ELSE IF IsSome(s1) /\ IsNone(s2) THEN TRUE
    ELSE FALSE

\* the is_better match of record_result: result against the current best
dns_is_better(result, best) ==
    LET s1 == result.download_speed_mbps
        s2 == best.download_speed_mbps
        l1 == result.latency
        l2 == best.latency IN
    IF IsSome(s1) /\ IsSome(s2) /\ Abs(Unwrap(s1) - Unwrap(s2)) > Tolerance
    THEN Unwrap(s1) > Unwrap(s2)
    ELSE IF IsSome(s1) /\ IsNone(s2) THEN TRUE
    ELSE IF IsNone(s1) /\ IsSome(s2) THEN FALSE
    ELSE IF IsSome(l1) /\ IsSome(l2) THEN Unwrap(l1) < Unwrap(l2)
    ELSE IF IsSome(l1) /\ IsNone(l2) THEN TRUE
    ELSE FALSE

\* the is_better match of record_mirror_result with s1 >= s2
mirror_is_better_or_equal(result, best) ==
    IF IsSome(result.speed_mbps) /\ IsSome(best.speed_mbps)
    THEN Unwrap(result.speed_mbps) >= Unwrap(best.speed_mbps)
    ELSE IsSome(result.speed_mbps) /\ IsNone(best.speed_mbps)

\* the is_better match of record_mirror_result
mirror_is_better(result, best) ==
    IF IsSome(result.speed_mbps) /\ IsSome(best.speed_mbps)
    THEN Unwrap(result.speed_mbps) > Unwrap(best.speed_mbps)
    ELSE IsSome(result.speed_mbps) /\ IsNone(best.speed_mbps)

\* App::sort_results
sort_results(a) ==
    LET ascending == a.sort_ascending IN
    CASE a.sort_column = "Ip" ->
            [a EXCEPT !.results = SortBy("Ip", ascending, @)]
      [] a.sort_column = "Latency" ->
            [a EXCEPT !.results = SortBy("Latency", ascending, @)]
      [] a.sort_column = "DownloadSpeed" ->
            IF a.mode = "Dns"
            THEN [a EXCEPT !.results = SortBy("DownloadSpeed", ascending, @)]
            ELSE [a EXCEPT !.mirror_results = SortBy("Speed", ascending, @)]
      [] a.sort_column = "Name" ->
            [a EXCEPT !.mirror_results = SortBy("Name", ascending, @)]

\* finish_testing that sorts but leaves the run state alone
finish_testing_sort_only(a) == sort_results(a)

\* App::finish_testing
finish_testing(a) == sort_results([a EXCEPT !.state = "Results"])

\* the best-pointer update of record_result whose first best may carry an
\* error
dns_update_best_ignore_error(a, result) ==
    IF IsSome(a.best_result)
    THEN IF dns_is_better(result, Unwrap(a.best_result))
         THEN [a EXCEPT !.best_result = Some(result)]
         ELSE a
    ELSE IF IsSome(result.latency) \/ IsSome(result.download_speed_mbps)
         THEN [a EXCEPT !.best_result = Some(result)]
         ELSE a

\* the best-pointer update of record_result
dns_update_best(a, result) ==
    IF IsSome(a.best_result)
    THEN IF dns_is_better(result, Unwrap(a.best_result))
         THEN [a EXCEPT !.best_result = Some(result)]
         ELSE a
    ELSE IF IsNone(result.error)
            /\ (IsSome(result.latency) \/ IsSome(result.download_speed_mbps))
         THEN [a EXCEPT !.best_result = Some(result)]
         ELSE a

\* record_result that keeps failed probes out of the results list
record_result_skip_failed(a, result) ==
    LET a2 == dns_update_best([a EXCEPT !.last_result = Some(result)], result)
        a3 == [a2 EXCEPT !.results = IF IsSome(result.error) THEN @
                                     ELSE Append(@, result),
                         !.testing_index = @ + 1] IN
    IF a3.testing_index >= Len(a3.dns_servers) THEN finish_testing(a3) ELSE a3

\* App::record_result
record_result(a, result) ==
    LET a1 == [a EXCEPT !.last_result = Some(result)]
        a2 == dns_update_best(a1, result)
        a3 == [a2 EXCEPT !.results = Append(@, result),
                         !.testing_index = @ + 1] IN
    IF a3.testing_index >= Len(a3.dns_servers) THEN finish_testing(a3) ELSE a3

\* record_mirror_result that puts the newest result first
record_mirror_result_prepend(a, result) ==
    LET a1 == [a EXCEPT !.last_mirror_result = Some(result)]
        a2 == IF IsSome(a1.best_mirror_result)
              THEN IF mirror_is_better(result, Unwrap(a1.best_mirror_result))
                   THEN [a1 EXCEPT !.best_mirror_result = Some(result)]
                   ELSE a1
              ELSE IF IsNone(result.error) /\ IsSome(result.speed_mbps)
                   THEN [a1 EXCEPT !.best_mirror_result = Some(result)]
                   ELSE a1
        a3 == [a2 EXCEPT !.mirror_results = << result >> \o @,
                         !.testing_index = @ + 1] IN
    IF a3.testing_index >= Len(a3.mirrors) THEN finish_testing(a3) ELSE a3

\* record_mirror_result whose first best needs no throughput
record_mirror_result_any_first(a, result) ==
    LET a1 == [a EXCEPT !.last_mirror_result = Some(result)]
        a2 == IF IsSome(a1.best_mirror_result)
              THEN IF mirror_is_better(result, Unwrap(a1.best_mirror_result))
                   THEN [a1 EXCEPT !.best_mirror_result = Some(result)]
                   ELSE a1
              ELSE IF IsNone(result.error)
                   THEN [a1 EXCEPT !.best_mirror_result = Some(result)]
                   ELSE a1
        a3 == [a2 EXCEPT !.mirror_results = Append(@, result),
                         !.testing_index = @ + 1] IN
    IF a3.testing_index >= Len(a3.mirrors) THEN finish_testing(a3) ELSE a3

\* App::record_mirror_result
record_mirror_result(a, result) ==
    LET a1 == [a EXCEPT !.last_mirror_result = Some(result)]
        a2 == IF IsSome(a1.best_mirror_result)
              THEN IF mirror_is_better(result, Unwrap(a1.best_mirror_result))
                   THEN [a1 EXCEPT !.best_mirror_result = Some(result)]
                   ELSE a1
              ELSE IF IsNone(result.error) /\ IsSome(result.speed_mbps)
                   THEN [a1 EXCEPT !.best_mirror_result = Some(result)]
                   ELSE a1
        a3 == [a2 EXCEPT !.mirror_results = Append(@, result),
                         !.testing_index = @ + 1] IN
    IF a3.testing_index >= Len(a3.mirrors) THEN finish_testing(a3) ELSE a3

\* cycle_sort_column that changes the column and does not re-sort
cycle_sort_column_no_sort(a) ==
    [a EXCEPT !.sort_column =
        CASE a.sort_column = "Ip" -> "Latency"
          [] a.sort_column = "Latency" -> "DownloadSpeed"
          [] a.sort_column = "DownloadSpeed" ->
                IF a.mode = "Mirror" THEN "Name" ELSE "Ip"
          [] a.sort_column = "Name" -> "Ip"]

\* App::cycle_sort_column
cycle_sort_column(a) ==
    LET next == CASE a.sort_column = "Ip" -> "Latency"
                  [] a.sort_column = "Latency" -> "DownloadSpeed"
                  [] a.sort_column = "DownloadSpeed" ->
                        IF a.mode = "Mirror" THEN "Name" ELSE "Ip"
                  [] a.sort_column = "Name" -> "Ip" IN
    sort_results([a EXCEPT !.sort_column = next])

\* toggle_sort_direction that always sets the direction to ascending
toggle_sort_direction_set_ascending(a) ==
    sort_results([a EXCEPT !.sort_ascending = TRUE])

\* App::toggle_sort_direction
toggle_sort_direction(a) == sort_results([a EXCEPT !.sort_ascending = ~@])

\* reset that leaves the DNS best pointer set
reset_keep_best(a) ==
    [a EXCEPT !.state = "Input",
              !.results = << >>, !.mirror_results = << >>,
              !.last_result = None, !.last_mirror_result = None,
              !.best_mirror_result = None,
              !.testing_index = 0,
              !.status_message = None]

\* reset that leaves the two results lists as they are
reset_keep_results(a) ==
    [a EXCEPT !.state = "Input",
              !.last_result = None, !.last_mirror_result = None,
              !.best_result = None, !.best_mirror_result = None,
              !.testing_index = 0,
              !.status_message = None]

\* App::reset
reset(a) ==
    [a EXCEPT !.state = "Input",
              !.results = << >>, !.mirror_results = << >>,
              !.last_result = None, !.last_mirror_result = None,
              !.best_result = None, !.best_mirror_result = None,
              !.testing_index = 0,
              !.status_message = None]

\* apply_fastest_dns that takes the best pointer out of the App
apply_fastest_dns_take(a, set_ok) ==
    IF IsSome(a.best_result)
    THEN [a EXCEPT !.best_result = None,
                   !.status_message =
                      Some([kind |-> IF set_ok THEN "Successfully set system DNS to"
                                     ELSE "Failed to set system DNS",
                            ip |-> IF set_ok THEN Unwrap(a.best_result).ip ELSE << >>,
                            is_error |-> ~set_ok])]
    ELSE [a EXCEPT !.status_message =
             Some([kind |-> "No valid test results available.",
                   ip |-> << >>, is_error |-> TRUE])]

\* apply_fastest_dns that drops the failure of set_system_dns
apply_fastest_dns_swallow(a, set_ok) ==
    IF IsSome(a.best_result)
    THEN IF set_ok
         THEN [a EXCEPT !.status_message =
                  Some([kind |-> "Successfully set system DNS to",
                        ip |-> Unwrap(a.best_result).ip,
                        is_error |-> FALSE])]
         ELSE a
    ELSE [a EXCEPT !.status_message =
             Some([kind |-> "No valid test results available.",
                   ip |-> << >>, is_error |-> TRUE])]

\* App::apply_fastest_dns, set_ok being whether set_system_dns returned Ok;
\* a status message is its fixed part, the address set, and the error flag
apply_fastest_dns(a, set_ok) ==
    IF IsSome(a.best_result)
    THEN IF set_ok
         THEN [a EXCEPT !.status_message =
                  Some([kind |-> "Successfully set system DNS to",
                        ip |-> Unwrap(a.best_result).ip,
                        is_error |-> FALSE])]
         ELSE [a EXCEPT !.status_message =
                  Some([kind |-> "Failed to set system DNS",
                        ip |-> << >>, is_error |-> TRUE])]
    ELSE [a EXCEPT !.status_message =
             Some([kind |-> "No valid test results available.",
                   ip |-> << >>, is_error |-> TRUE])]

\* toggle_mode without the check of the run state
toggle_mode_any_state(a) ==
    reset([a EXCEPT !.mode = IF @ = "Dns" THEN "Mirror" ELSE "Dns"])

\* App::toggle_mode
toggle_mode(a) ==
    IF a.state = "Input"
    THEN reset([a EXCEPT !.mode = IF @ = "Dns" THEN "Mirror" ELSE "Dns"])
    ELSE a

\* the targets vector of start_testing, and candidate i (0-based) of update
targets_of(a) ==
    IF a.mode = "Dns"
    THEN [i \in 1..Len(a.dns_servers) |-> TargetDns(a.dns_servers[i])]
    ELSE [i \in 1..Len(a.mirrors) |-> TargetMirror(a.mirrors[i])]

\* mpsc::Sender::try_send on a channel holding q whose receiver is open or
\* not: the new queue, and whether the send returned Ok
try_send(q, open, msg) ==
    IF open /\ Len(q) < Capacity
    THEN [q |-> Append(q, msg), ok |-> TRUE]
    ELSE [q |-> q, ok |-> FALSE]

\* start_testing whose guard looks at the DNS list in both modes
start_testing_checks_dns_list(a, q, open) ==
    LET targets == targets_of(a) IN
    IF a.dns_servers # << >>
    THEN LET a1 == [a EXCEPT !.state = "Testing", !.testing_index = 0,
                             !.results = << >>, !.mirror_results = << >>] IN
         IF a1.tx /\ targets # << >>
         THEN LET sent == try_send(q, open, targets[1]) IN
              [app |-> a1, q |-> sent.q, failed |-> ~sent.ok]
         ELSE [app |-> a1, q |-> q, failed |-> FALSE]
    ELSE [app |-> a, q |-> q, failed |-> FALSE]

\* start_testing without the emptiness guard
start_testing_unguarded(a, q, open) ==
    LET targets == targets_of(a)
        a1 == [a EXCEPT !.state = "Testing", !.testing_index = 0,
                        !.results = << >>, !.mirror_results = << >>] IN
    IF a1.tx /\ targets # << >>
    THEN LET sent == try_send(q, open, targets[1]) IN
         [app |-> a1, q |-> sent.q, failed |-> ~sent.ok]
    ELSE [app |-> a1, q |-> q, failed |-> FALSE]

\* start_testing that leaves the first dispatch to a later step
start_testing_lazy(a, q, open) ==
    LET targets == targets_of(a) IN
    IF targets # << >>
    THEN [app |-> [a EXCEPT !.state = "Testing", !.testing_index = 0,
                            !.results = << >>, !.mirror_results = << >>],
          q |-> q, failed |-> FALSE]
    ELSE [app |-> a, q |-> q, failed |-> FALSE]

\* App::start_testing: the new App, the new target queue, and whether a
\* try_send failed
start_testing(a, q, open) ==
    LET targets == targets_of(a) IN
    IF targets # << >>
    THEN LET a1 == [a EXCEPT !.state = "Testing", !.testing_index = 0,
                             !.results = << >>, !.mirror_results = << >>]
             sent == try_send(q, open, targets[1]) IN
         IF a1.tx
         THEN [app |-> a1, q |-> sent.q, failed |-> ~sent.ok]
         ELSE [app |-> a1, q |-> q, failed |-> FALSE]
    ELSE [app |-> a, q |-> q, failed |-> FALSE]

\* an update that sends one more target after the last result
update_body_send_past_end(a, q, open, result) ==
    LET a1 == IF result.tag = "Dns" THEN record_result(a, result)
              ELSE record_mirror_result(a, result)
        total == IF a1.mode = "Dns" THEN Len(a1.dns_servers) ELSE Len(a1.mirrors) IN
    IF a1.testing_index < total
    THEN IF a1.tx
         THEN LET sent == try_send(q, open, targets_of(a1)[a1.testing_index + 1]) IN
              [app |-> a1, q |-> sent.q, failed |-> ~sent.ok]
         ELSE [app |-> a1, q |-> q, failed |-> FALSE]
    ELSE LET sent == try_send(q, open, targets_of(a1)[1]) IN
         [app |-> finish_testing(a1), q |-> sent.q, failed |-> ~sent.ok]

\* an update that ends the run at the first result carrying an error
update_body_stop_on_error(a, q, open, result) ==
    LET a1 == IF result.tag = "Dns" THEN record_result(a, result)
              ELSE record_mirror_result(a, result)
        total == IF a1.mode = "Dns" THEN Len(a1.dns_servers) ELSE Len(a1.mirrors) IN
    IF a1.testing_index < total /\ IsNone(result.error)
    THEN IF a1.tx
         THEN LET sent == try_send(q, open, targets_of(a1)[a1.testing_index + 1]) IN
              [app |-> a1, q |-> sent.q, failed |-> ~sent.ok]
         ELSE [app |-> a1, q |-> q, failed |-> FALSE]
    ELSE [app |-> finish_testing(a1), q |-> q, failed |-> FALSE]

\* one iteration of the while loop of App::update for a received result:
\* the new App, the new target queue, and whether a try_send failed
update_body(a, q, open, result) ==
    LET a1 == IF result.tag = "Dns" THEN record_result(a, result)
              ELSE record_mirror_result(a, result)
        total == IF a1.mode = "Dns" THEN Len(a1.dns_servers) ELSE Len(a1.mirrors) IN
    IF a1.testing_index < total
    THEN IF a1.tx
         THEN LET sent == try_send(q, open, targets_of(a1)[a1.testing_index + 1]) IN
              [app |-> a1, q |-> sent.q, failed |-> ~sent.ok]
         ELSE [app |-> a1, q |-> q, failed |-> FALSE]
    ELSE [app |-> finish_testing(a1), q |-> q, failed |-> FALSE]

\* ------------------------------------------------------------ state ----
VARIABLES
    app,          \* the App owned by run_app
    tq,           \* messages in the target channel (tx_target -> rx_target)
    rq,           \* messages in the result channel (tx_result -> rx_result)
    wpc,          \* the worker task: "recv", "probe", "send" or "done"
                  \* ("unspawned" before main spawns it)
    wtarget,      \* the target the worker is probing (Option)
    wresult,      \* the result the worker is about to send (Option)
    running,      \* run_app has not returned (App and its channel ends live)
    upc,          \* run_app: "loop", or "update" inside App::update's while
                  \* (main before run_app: "main", or "exit_err" once it returned Err)
    send_failed,  \* history: some try_send returned Err and was ignored
    dispatched,   \* history: cursor values whose try_send succeeded this run
    best_log      \* history: the DNS best pointer after each direct record_result call

vars == << app, tq, rq, wpc, wtarget, wresult, running, upc, send_failed, dispatched, best_log >>

\* main: the command-line list after sort + dedup, the mirrors loaded, the
\* two channels empty and the worker spawned
Init ==
    /\ \E cli \in SeqsUpTo(IpPool, MaxInitial), distro \in HostDistros :
          \E ml \in LoadedMirrors(distro) :
             app = App_new(SortDedup(cli), ml)
    /\ tq = << >>
    /\ rq = << >>
    /\ wpc = "recv"
    /\ wtarget = None
    /\ wresult = None
    /\ running = TRUE
    /\ upc = "loop"
    /\ send_failed = FALSE
    /\ dispatched = << >>
    /\ best_log = << >>

\* the receiver of the target channel lives in the worker's loop
TargetReceiverOpen == wpc # "done"

\* run_app is about to poll a key in the normal (not Testing) branch
AtKey(st) == running /\ upc = "loop" /\ app.state = st

OnlyApp == UNCHANGED << tq, rq, wpc, wtarget, wresult, running, upc, send_failed, dispatched, best_log >>

\* ---- keys in state Input
\* Enter handled in every run state
KeyEnter_any_state ==
    /\ running /\ upc = "loop"
    /\ \E text \in InputTexts :
          /\ Len(add_dns_server(app, text).dns_servers) <= MaxServers
          /\ app' = add_dns_server(app, text)
    /\ OnlyApp

KeyEnter ==
    /\ AtKey("Input")
    /\ \E text \in InputTexts :
          /\ Len(add_dns_server(app, text).dns_servers) <= MaxServers
          /\ app' = add_dns_server(app, text)
    /\ OnlyApp

\* Backspace handled in every run state
KeyBackspace_any_state ==
    /\ running /\ upc = "loop"
    /\ app' = remove_last_dns_server(app)
    /\ OnlyApp

KeyBackspace ==
    /\ AtKey("Input")
    /\ app' = remove_last_dns_server(app)
    /\ OnlyApp

\* Tab handled in every run state
KeyTab_any_state ==
    /\ running /\ upc = "loop"
    /\ LET r == start_testing(app, tq, TargetReceiverOpen) IN
        /\ app' = r.app
        /\ tq' = r.q
        /\ send_failed' = (send_failed \/ r.failed)
        /\ dispatched' = IF r.app.state # "Testing" THEN dispatched
                         ELSE IF r.q # tq THEN << 0 >> ELSE << >>
    /\ UNCHANGED << rq, wpc, wtarget, wresult, running, upc, best_log >>

KeyTab ==
    /\ AtKey("Input")
    /\ LET r == start_testing(app, tq, TargetReceiverOpen) IN
        /\ app' = r.app
        /\ tq' = r.q
        /\ send_failed' = (send_failed \/ r.failed)
        /\ dispatched' = IF r.app.state # "Testing" THEN dispatched
                         ELSE IF r.q # tq THEN << 0 >> ELSE << >>
    /\ UNCHANGED << rq, wpc, wtarget, wresult, running, upc, best_log >>

\* 'm' in Input or Results: both arms call toggle_mode
KeyMode ==
    /\ running /\ upc = "loop" /\ app.state \in { "Input", "Results" }
    /\ app' = toggle_mode(app)
    /\ OnlyApp

\* ---- keys in state Results
\* 'r' handled in every run state
KeyReset_any_state ==
    /\ running /\ upc = "loop"
    /\ app' = reset(app)
    /\ OnlyApp

KeyReset ==
    /\ AtKey("Results")
    /\ app' = reset(app)
    /\ OnlyApp

KeyCycleSort ==
    /\ AtKey("Results")
    /\ app' = cycle_sort_column(app)
    /\ OnlyApp

KeyToggleDirection ==
    /\ AtKey("Results")
    /\ app' = toggle_sort_direction(app)
    /\ OnlyApp

KeyApply ==
    /\ AtKey("Results")
    /\ \E set_ok \in BOOLEAN : app' = apply_fastest_dns(app, set_ok)
    /\ OnlyApp

\* 'q' in Input or Results: run_app returns
KeyQuit ==
    /\ running /\ upc = "loop" /\ app.state \in { "Input", "Results" }
    /\ running' = FALSE
    /\ UNCHANGED << app, tq, rq, wpc, wtarget, wresult, upc, send_failed, dispatched, best_log >>

\* ---- the Testing branch of run_app
\* 'q' while Testing: should_quit is set and run_app returns before update
TestingQuit ==
    /\ AtKey("Testing")
    /\ app' = [app EXCEPT !.should_quit = TRUE]
    /\ running' = FALSE
    /\ UNCHANGED << tq, rq, wpc, wtarget, wresult, upc, send_failed, dispatched, best_log >>

\* no key, or a key other than 'q': app.update() is entered
TestingUpdate ==
    /\ AtKey("Testing")
    /\ upc' = "update"
    /\ UNCHANGED << app, tq, rq, wpc, wtarget, wresult, running, send_failed, dispatched, best_log >>

\* one try_recv of update's while loop: a result is recorded and the next
\* target sent, or the channel is empty and update returns.  The worker
\* cannot tell the try_recv and the try_send of one iteration apart from a
\* single step, since each touches a different channel.
UpdateRecv ==
    /\ running /\ upc = "update"
    /\ IF rq # << >>
       THEN LET r == update_body(app, tq, TargetReceiverOpen, Head(rq)) IN
            /\ rq' = Tail(rq)
            /\ app' = r.app
            /\ tq' = r.q
            /\ send_failed' = (send_failed \/ r.failed)
            /\ dispatched' = IF r.q # tq
                             THEN Append(dispatched, r.app.testing_index)
                             ELSE dispatched
            /\ UNCHANGED upc
       ELSE /\ upc' = "loop"
            /\ UNCHANGED << app, tq, rq, send_failed, dispatched >>
    /\ UNCHANGED << wpc, wtarget, wresult, running, best_log >>

\* a receive that leaves the target in the channel
WorkerRecv_peek ==
    /\ wpc = "recv"
    /\ tq # << >>
    /\ wtarget' = Some(Head(tq))
    /\ wpc' = "probe"
    /\ UNCHANGED << app, tq, rq, wresult, running, upc, send_failed, dispatched, best_log >>

\* a worker that probes the same target again after sending its result
WorkerSend_retry ==
    /\ wpc = "send"
    /\ IF running
       THEN /\ Len(rq) < Capacity
            /\ rq' = Append(rq, Unwrap(wresult))
       ELSE UNCHANGED rq
    /\ wpc' = "probe"
    /\ wresult' = None
    /\ UNCHANGED << app, tq, wtarget, running, upc, send_failed, dispatched, best_log >>

\* ---- the worker task
\* rx_target.recv().await: a target, or None once the App (the only sender)
\* is gone and the channel is drained
WorkerRecv ==
    /\ wpc = "recv"
    /\ IF tq # << >>
       THEN /\ wtarget' = Some(Head(tq))
            /\ tq' = Tail(tq)
            /\ wpc' = "probe"
       ELSE /\ ~running
            /\ wpc' = "done"
            /\ UNCHANGED << wtarget, tq >>
    /\ UNCHANGED << app, rq, wresult, running, upc, send_failed, dispatched, best_log >>

\* run_full_test / test_mirror_speed runs to completion
WorkerProbe ==
    /\ wpc = "probe"
    /\ \E r \in Probe(Unwrap(wtarget)) : wresult' = Some(r)
    /\ wpc' = "send"
    /\ UNCHANGED << app, tq, rq, wtarget, running, upc, send_failed, dispatched, best_log >>

\* a worker that probes the target again, without sending, when the probe
\* returned an error
WorkerSend_retry_failed ==
    /\ wpc = "send"
    /\ IF IsSome(Unwrap(wresult).error)
       THEN /\ wpc' = "probe"
            /\ wresult' = None
            /\ UNCHANGED << rq, wtarget >>
       ELSE /\ IF running
               THEN /\ Len(rq) < Capacity
                    /\ rq' = Append(rq, Unwrap(wresult))
               ELSE UNCHANGED rq
            /\ wpc' = "recv"
            /\ wtarget' = None
            /\ wresult' = None
    /\ UNCHANGED << app, tq, running, upc, send_failed, dispatched, best_log >>

\* tx_result.send(..).await: waits for room, or fails (ignored) when the
\* App's receiver is gone
WorkerSend ==
    /\ wpc = "send"
    /\ IF running
       THEN /\ Len(rq) < Capacity
            /\ rq' = Append(rq, Unwrap(wresult))
       ELSE UNCHANGED rq
    /\ wpc' = "recv"
    /\ wtarget' = None
    /\ wresult' = None
    /\ UNCHANGED << app, tq, running, upc, send_failed, dispatched, best_log >>

Worker == WorkerRecv \/ WorkerProbe \/ WorkerSend

Next ==
    \/ KeyEnter \/ KeyBackspace \/ KeyTab \/ KeyMode
    \/ KeyReset \/ KeyCycleSort \/ KeyToggleDirection \/ KeyApply
    \/ KeyQuit
    \/ TestingQuit \/ TestingUpdate \/ UpdateRecv
    \/ WorkerRecv \/ WorkerProbe \/ WorkerSend

Spec == Init /\ [][Next]_vars

TypeOK ==
    /\ app.state \in { "Input", "Testing", "Results" }
    /\ app.mode \in { "Dns", "Mirror" }
    /\ wpc \in { "recv", "probe", "send", "done" }

\* scheduling: the tokio runtime keeps running the worker task, and run_app
\* keeps looping (poll, update) while Testing
Fairness ==
    /\ WF_vars(TestingUpdate) /\ WF_vars(UpdateRecv)
    /\ WF_vars(WorkerRecv) /\ WF_vars(WorkerProbe) /\ WF_vars(WorkerSend)

\* the steps that take part in runs: the operator starts, resets, switches
\* mode or quits.  Editing the list, sorting and apply are enabled only
\* outside Testing and are left to Spec.
RunNext ==
    \/ KeyTab \/ KeyMode \/ KeyReset \/ KeyQuit
    \/ TestingQuit \/ TestingUpdate \/ UpdateRecv
    \/ WorkerRecv \/ WorkerProbe \/ WorkerSend

FairSpec == Init /\ [][RunNext]_vars /\ Fairness

\* ------------------------------------------- the App called directly ----
\* The App as App::new leaves it (tx is None: nothing is sent), its public
\* methods called one at a time with results of every shape the types
\* DnsTestResult and MirrorTestResult allow, so that best selection and
\* sorting are exercised on more values than the two probes of Spec return.
RichLatencies == { 1, 2, 3 }
RichSpeeds == { 0, 2, 4 }

OptionOf(S) == { None } \cup { Some(x) : x \in S }

\* the values of DnsTestResult for address ip
DnsResultPool(ip) ==
    { [tag |-> "Dns", ip |-> ip, latency |-> l,
       download_speed_mbps |-> s, error |-> e] :
        l \in OptionOf(RichLatencies), s \in OptionOf(RichSpeeds),
        e \in OptionOf({ "Latency test failed" }) }

\* the values of MirrorTestResult for mirror m
MirrorResultPool(m) ==
    { [tag |-> "Mirror", name |-> m.name, url |-> m.url,
       speed_mbps |-> s, error |-> e] :
        s \in OptionOf(RichSpeeds), e \in OptionOf({ "Request failed" }) }

\* three addresses on the command line, and the mirrors of an Ubuntu host
BestServers == SortDedup(<< << 9, 9, 9, 9 >>, << 10, 0, 0, 1 >>, << 1, 1, 1, 1 >> >>)
BestMirrors == load_mirrors(MirrorFile, "Ubuntu")

BestInit ==
    /\ app = [App_new(BestServers, BestMirrors) EXCEPT !.tx = FALSE]
    /\ tq = << >>
    /\ rq = << >>
    /\ wpc = "recv"
    /\ wtarget = None
    /\ wresult = None
    /\ running = TRUE
    /\ upc = "loop"
    /\ send_failed = FALSE
    /\ dispatched = << >>
    /\ best_log = << >>

CallStartTesting ==
    /\ app.state = "Input"
    /\ app' = start_testing(app, tq, TRUE).app
    /\ best_log' = << >>
    /\ UNCHANGED << tq, rq, wpc, wtarget, wresult, running, upc, send_failed, dispatched >>

CallRecordResult ==
    /\ app.state = "Testing" /\ app.mode = "Dns"
    /\ \E result \in DnsResultPool(app.dns_servers[app.testing_index + 1]) :
          /\ app' = record_result(app, result)
          /\ best_log' = Append(best_log, app'.best_result)
    /\ UNCHANGED << tq, rq, wpc, wtarget, wresult, running, upc, send_failed, dispatched >>

CallRecordMirrorResult ==
    /\ app.state = "Testing" /\ app.mode = "Mirror"
    /\ \E result \in MirrorResultPool(app.mirrors[app.testing_index + 1]) :
          app' = record_mirror_result(app, result)
    /\ OnlyApp

CallReset ==
    /\ app.state = "Results"
    /\ app' = reset(app)
    /\ best_log' = << >>
    /\ UNCHANGED << tq, rq, wpc, wtarget, wresult, running, upc, send_failed, dispatched >>

CallToggleMode ==
    /\ app.state = "Input"
    /\ app' = toggle_mode(app)
    /\ OnlyApp

BestNext ==
    \/ CallStartTesting \/ CallRecordResult \/ CallRecordMirrorResult
    \/ CallReset \/ CallToggleMode

BestSpec == BestInit /\ [][BestNext]_vars

\* ---- runs over the results the two probes return, and the sort methods
\* every result run_full_test can return for ip, and the worker's Mirror arm
\* for m, over the richer measurements
RichDnsProbeResults(ip) ==
    { run_full_test(ip, lat, spd, el) :
        lat \in { Ok(l) : l \in RichLatencies } \cup { Err },
        spd \in { Ok(v) : v \in RichSpeeds } \cup { Err },
        el \in BOOLEAN }

RichMirrorProbeResults(m) ==
    { mirror_result(m, spd) : spd \in { Ok(v) : v \in RichSpeeds } \cup { Err } }

CallRecordProbeResult ==
    /\ app.state = "Testing" /\ app.mode = "Dns"
    /\ \E result \in RichDnsProbeResults(app.dns_servers[app.testing_index + 1]) :
          /\ app' = record_result(app, result)
          /\ best_log' = Append(best_log, app'.best_result)
    /\ UNCHANGED << tq, rq, wpc, wtarget, wresult, running, upc, send_failed, dispatched >>

CallRecordProbeMirrorResult ==
    /\ app.state = "Testing" /\ app.mode = "Mirror"
    /\ \E result \in RichMirrorProbeResults(app.mirrors[app.testing_index + 1]) :
          app' = record_mirror_result(app, result)
    /\ OnlyApp

CallCycleSortColumn ==
    /\ app.state = "Results"
    /\ app' = cycle_sort_column(app)
    /\ OnlyApp

CallToggleSortDirection ==
    /\ app.state = "Results"
    /\ app' = toggle_sort_direction(app)
    /\ OnlyApp

SortNext ==
    \/ CallStartTesting \/ CallRecordProbeResult \/ CallRecordProbeMirrorResult
    \/ CallReset \/ CallToggleMode
    \/ CallCycleSortColumn \/ CallToggleSortDirection

SortSpec == BestInit /\ [][SortNext]_vars

\* ------------------------------------------------------ main: start ----
\* The program from the start of main: the command line read, the address
\* files loaded, then the App, the channels and the worker set up as in
\* Init.  Before that upc is "main", the worker is "unspawned" and app is
\* not built yet (it holds App::default); an Err returned from main leaves
\* upc at "exit_err".

\* the address files --json / --csv can name: a path that cannot be opened,
\* a file that does not parse, or the ip texts of its records
AddressFiles ==
    { [exists |-> FALSE, well_formed |-> FALSE, records |-> << >>],
      [exists |-> TRUE, well_formed |-> FALSE, records |-> << >>] }
      \cup { [exists |-> TRUE, well_formed |-> TRUE, records |-> rs] :
                rs \in SeqsUpTo(InputTexts, MaxFileRecords) }

LoadErr(msg) == [ok |-> FALSE, val |-> msg]

RECURSIVE ParseRecords(_, _)
\* the for loop of load_json / load_csv: record.ip.parse::<IpAddr>() on the
\* text as it stands, the first failure returned
ParseRecords(records, msg) ==
    IF records = << >> THEN Ok(<< >>)
    ELSE LET ip == ParseIp(Head(records)) IN
         IF IsNone(ip) THEN LoadErr(msg)
         ELSE LET rest == ParseRecords(Tail(records), msg) IN
              IF rest.ok THEN Ok(<< Unwrap(ip) >> \o rest.val) ELSE rest

load_json(file) ==
    IF ~file.exists THEN LoadErr("Failed to open JSON file")
    ELSE IF ~file.well_formed THEN LoadErr("Failed to parse JSON file")
    ELSE ParseRecords(file.records, "Invalid IP address in JSON")

load_csv(file) ==
    IF ~file.exists THEN LoadErr("Failed to open CSV file")
    ELSE IF ~file.well_formed THEN LoadErr("Failed to parse CSV record")
    ELSE ParseRecords(file.records, "Invalid IP address in CSV")

\* main up to App::new: Ok(initial_dns) after sort + dedup, or the Err that
\* the ? on a loader returns from main
main_initial_dns(dns, json, csv) ==
    LET j == IF IsSome(json) THEN load_json(Unwrap(json)) ELSE Ok(<< >>) IN
    IF ~j.ok THEN j
    ELSE LET c == IF IsSome(csv) THEN load_csv(Unwrap(csv)) ELSE Ok(<< >>) IN
         IF ~c.ok THEN c
         ELSE Ok(SortDedup(dns \o j.val \o c.val))

StartInit ==
    /\ app = App_new(<< >>, << >>)
    /\ tq = << >>
    /\ rq = << >>
    /\ wpc = "unspawned"
    /\ wtarget = None
    /\ wresult = None
    /\ running = TRUE
    /\ upc = "main"
    /\ send_failed = FALSE
    /\ dispatched = << >>
    /\ best_log = << >>

\* main, from Cli::parse to the call of run_app
Main ==
    /\ upc = "main"
    /\ \E dns \in SeqsUpTo(IpPool, MaxInitial),
          json \in OptionOf(AddressFiles), csv \in OptionOf(AddressFiles),
          distro \in HostDistros :
          \E ml \in LoadedMirrors(distro) :
             LET r == main_initial_dns(dns, json, csv) IN
             IF r.ok
             THEN /\ Len(r.val) <= MaxInitial
                  /\ app' = App_new(r.val, ml)
                  /\ wpc' = "recv"
                  /\ upc' = "loop"
                  /\ UNCHANGED running
             ELSE /\ upc' = "exit_err"
                  /\ running' = FALSE
                  /\ UNCHANGED << app, wpc >>
    /\ UNCHANGED << tq, rq, wtarget, wresult, send_failed, dispatched, best_log >>

StartNext ==
    \/ Main
    \/ KeyEnter \/ KeyBackspace \/ KeyTab \/ KeyMode
    \/ KeyReset \/ KeyCycleSort \/ KeyToggleDirection \/ KeyApply
    \/ KeyQuit
    \/ TestingQuit \/ TestingUpdate \/ UpdateRecv
    \/ WorkerRecv \/ WorkerProbe \/ WorkerSend

StartSpec == StartInit /\ [][StartNext]_vars

\* ----------------------------------------------------------- claims ----
\* the active mode's candidate list and results list
Candidates(a) == IF a.mode = "Dns" THEN a.dns_servers ELSE a.mirrors
ActiveResults(a) == IF a.mode = "Dns" THEN a.results ELSE a.mirror_results

\* what identifies the candidate of a target, a candidate or a result
KeyOfCandidate(a, c) == IF a.mode = "Dns" THEN << "Dns", c >> ELSE << "Mirror", c.name, c.url >>
KeyOfResult(r) == IF r.tag = "Dns" THEN << "Dns", r.ip >> ELSE << "Mirror", r.name, r.url >>

\* how often key k occurs among the candidates, and among the results
CountCandidates(a, k) ==
    Cardinality({ i \in 1..Len(Candidates(a)) : KeyOfCandidate(a, Candidates(a)[i]) = k })
CountResults(a, k) ==
    Cardinality({ i \in 1..Len(ActiveResults(a)) : KeyOfResult(ActiveResults(a)[i]) = k })

\* targets queued + probes the worker holds + results queued
InFlight == Len(tq) + (IF wpc \in { "probe", "send" } THEN 1 ELSE 0) + Len(rq)

\* C1: while the run state is Testing, the targets waiting in the target
\* queue, the probe the worker is executing and the results waiting in the
\* result queue number at most one in total.
C1_SingleInFlight == app.state = "Testing" => InFlight <= 1

\* a later probe of a run is executing while nothing else is outstanding
C1_Witness ==
    /\ app.state = "Testing" /\ running
    /\ app.testing_index >= 1
    /\ wpc = "probe" /\ tq = << >> /\ rq = << >>

\* C2: whenever the run state is Results, the active mode's results list is
\* as long as the candidate list and holds every candidate's key exactly as
\* often as the candidate list does.
C2_Completeness ==
    app.state = "Results" =>
        LET cs == Candidates(app)
            rs == ActiveResults(app) IN
        /\ cs # << >>
        /\ Len(rs) = Len(cs)
        /\ \A i \in 1..Len(cs) :
              LET k == KeyOfCandidate(app, cs[i]) IN
              CountResults(app, k) = CountCandidates(app, k)

\* a completed mirror run over a list that names the same mirror twice
C2_Witness ==
    /\ app.state = "Results" /\ app.mode = "Mirror"
    /\ Len(app.mirrors) = 3 /\ app.mirrors[1] = app.mirrors[3]

\* C3: while the run state is Testing, the results list has exactly cursor
\* entries and entry i is the result of candidate i.
C3_DispatchOrder ==
    app.state = "Testing" =>
        LET cs == Candidates(app)
            rs == ActiveResults(app) IN
        /\ Len(rs) = app.testing_index
        /\ app.testing_index <= Len(cs)
        /\ \A i \in 1..Len(rs) : KeyOfResult(rs[i]) = KeyOfCandidate(app, cs[i])

\* two results recorded, a third candidate still being probed
C3_Witness ==
    /\ app.state = "Testing" /\ app.mode = "Mirror"
    /\ Len(app.mirror_results) = 2 /\ Len(app.mirrors) = 3
    /\ wpc = "probe"

\* C4: no try_send of start_testing or update ever fails, and a running
\* Testing state always has exactly one request outstanding, so the run is
\* never stalled with nothing in flight.
C4_NoDroppedSend ==
    /\ ~send_failed
    /\ (running /\ app.state = "Testing") => InFlight = 1

\* a run after an earlier completed run (the sort column was cycled in
\* Results) whose second candidate has been dispatched by update
C4_Witness ==
    /\ app.state = "Testing" /\ running
    /\ app.sort_column = "Latency"
    /\ dispatched = << 0, 1 >>
    /\ tq # << >>

\* C5: under fair scheduling of the worker and of the poll loop, a run that
\* is Testing eventually is Results, unless the operator quits.
C5_RunCompletes == (app.state = "Testing") ~> (app.state = "Results" \/ ~running)

\* a run of two candidates has completed without the operator quitting
C5_Witness ==
    /\ app.state = "Results" /\ running /\ upc = "loop"
    /\ Len(Candidates(app)) >= 2
    /\ dispatched = << 0, 1 >>

\* C6: a Tab (start_testing) while the active mode's candidate list is empty
\* changes nothing: not the App, not the target queue.
C6_StartGuarded ==
    [][(KeyTab /\ Candidates(app) = << >>) => (app' = app /\ tq' = tq)]_vars

\* mirror mode with no mirror loaded, while DNS candidates exist
C6_Witness ==
    /\ app.state = "Input" /\ running /\ upc = "loop"
    /\ app.mode = "Mirror" /\ app.mirrors = << >> /\ app.dns_servers # << >>

\* C7: a Tab (start_testing) with a non-empty candidate list sets the run
\* state to Testing, empties both results lists, zeroes the cursor and puts
\* candidate 0 of the active mode on the target queue in the same step.
C7_StartEffects ==
    [][(KeyTab /\ Candidates(app) # << >>) =>
          /\ app'.state = "Testing"
          /\ app'.results = << >> /\ app'.mirror_results = << >>
          /\ app'.testing_index = 0
          /\ tq' = << IF app.mode = "Dns" THEN TargetDns(app.dns_servers[1])
                      ELSE TargetMirror(app.mirrors[1]) >>]_vars

\* the state right after a start in mirror mode
C7_Witness ==
    /\ app.state = "Testing" /\ app.mode = "Mirror"
    /\ app.testing_index = 0
    /\ tq = << TargetMirror(app.mirrors[1]) >>

\* C8: a reset from Results sets the run state to Input, empties both results
\* lists, unsets both best pointers, zeroes the cursor and clears the status
\* message, and leaves both candidate lists as they were.
C8_Reset ==
    [][KeyReset =>
          /\ app'.state = "Input"
          /\ app'.results = << >> /\ app'.mirror_results = << >>
          /\ app'.best_result = None /\ app'.best_mirror_result = None
          /\ app'.testing_index = 0
          /\ app'.status_message = None
          /\ app'.dns_servers = app.dns_servers
          /\ app'.mirrors = app.mirrors]_vars

\* Results with results, a best pointer and a status message to clear
C8_Witness ==
    /\ app.state = "Results" /\ running /\ upc = "loop"
    /\ app.results # << >> /\ app.best_result # None
    /\ app.status_message # None

\* C9: every step taken while the run state is Testing or Results leaves the
\* DNS candidate list and the mirror list unchanged.
C9_CandidatesOnlyInInput ==
    [][app.state \in { "Testing", "Results" } =>
          (app'.dns_servers = app.dns_servers /\ app'.mirrors = app.mirrors)]_vars

\* a list the operator edited (a rejected add left its message) is under test
C9_Witness ==
    /\ app.state = "Testing" /\ running
    /\ app.error_message # None
    /\ app.testing_index >= 1

NoDuplicates(s) == \A i, j \in 1..Len(s) : s[i] = s[j] => i = j

\* C10: the DNS candidate list never holds an address twice, and adding a
\* text that parses to an address already in the list leaves the list
\* unchanged and sets the validation message.
C10_DuplicateRejected ==
    /\ NoDuplicates(app.dns_servers)
    /\ (running /\ upc = "loop" /\ app.state = "Input") =>
          \A text \in InputTexts :
             LET parsed == ParseIp(Trim(text)) IN
             (IsSome(parsed) /\ Contains(app.dns_servers, Unwrap(parsed))) =>
                 /\ add_dns_server(app, text).dns_servers = app.dns_servers
                 /\ add_dns_server(app, text).error_message # None

\* an add was rejected as a duplicate
C10_Witness ==
    /\ app.state = "Input"
    /\ app.error_message = Some("is already in the list")
    /\ Len(app.dns_servers) >= 2

\* a DNS result of a shape run_full_test returns: a failure before any
\* measurement, a latency with a download failure, or both measurements
ProbeShaped(r) ==
    \/ IsNone(r.latency) /\ IsNone(r.download_speed_mbps) /\ IsSome(r.error)
    \/ IsSome(r.latency) /\ IsNone(r.download_speed_mbps) /\ IsSome(r.error)
    \/ IsSome(r.latency) /\ IsSome(r.download_speed_mbps) /\ IsNone(r.error)

AllProbeShaped(rs) == \A i \in 1..Len(rs) : ProbeShaped(rs[i])

\* C11: between resets, over record_result calls with results the probe can
\* return, once a DNS best pointer A is logged every later logged best
\* pointer B is set and A is not better than B by the rule of record_result:
\* the best never regresses.
C11_BestMonotone ==
    AllProbeShaped(app.results) =>
        \A i, j \in 1..Len(best_log) :
            (i < j /\ IsSome(best_log[i])) =>
                /\ IsSome(best_log[j])
                /\ ~dns_is_better(Unwrap(best_log[i]), Unwrap(best_log[j]))

\* C12: in every step other than a reset (the 'r' key, or the reset that
\* toggle_mode performs in Input), a DNS best pointer that is set stays set
\* and a mirror best pointer that is set stays set.
C12_BestNeverCleared ==
    [][~(KeyReset \/ (KeyMode /\ app.state = "Input")) =>
          /\ (IsSome(app.best_result) => IsSome(app'.best_result))
          /\ (IsSome(app.best_mirror_result) => IsSome(app'.best_mirror_result))]_vars

\* after a run set the best pointer, the results were re-sorted and the best
\* was applied, and the best pointer is still set
C12_Witness ==
    /\ app.state = "Results" /\ IsSome(app.best_result)
    /\ app.sort_column = "Ip"
    /\ IsSome(app.status_message)
    /\ Unwrap(app.status_message).kind = "Successfully set system DNS to"

\* the replacement rule case by case, a result B against the best A
ThroughputsTied(B, A) ==
    \/ IsNone(B.download_speed_mbps) /\ IsNone(A.download_speed_mbps)
    \/ /\ IsSome(B.download_speed_mbps) /\ IsSome(A.download_speed_mbps)
       /\ Unwrap(B.download_speed_mbps) - Unwrap(A.download_speed_mbps) <= Tolerance
       /\ Unwrap(A.download_speed_mbps) - Unwrap(B.download_speed_mbps) <= Tolerance

DnsReplaces(B, A) ==
    \/ IsSome(B.download_speed_mbps) /\ IsNone(A.download_speed_mbps)
    \/ /\ IsSome(B.download_speed_mbps) /\ IsSome(A.download_speed_mbps)
       /\ ~ThroughputsTied(B, A)
       /\ Unwrap(B.download_speed_mbps) > Unwrap(A.download_speed_mbps)
    \/ /\ ThroughputsTied(B, A)
       /\ IsSome(B.latency)
       /\ (IsNone(A.latency) \/ Unwrap(B.latency) < Unwrap(A.latency))

\* C13: a record_result call with result B while a DNS best A exists makes
\* B the best exactly when B has throughput and A has none, or both have,
\* they differ by more than the tolerance and B's is larger, or the
\* throughputs are both absent or within the tolerance and B has a latency
\* lower than A's (an absent latency of A counting as worse); in every other
\* case the best pointer stays A.
C13_DnsReplacementRule ==
    [][(CallRecordResult /\ IsSome(app.best_result)) =>
          LET A == Unwrap(app.best_result)
              B == Unwrap(app'.last_result) IN
          IF DnsReplaces(B, A)
          THEN app'.best_result = Some(B)
          ELSE app'.best_result = Some(A)]_vars

\* a result whose throughput is within the tolerance of the best's, but not
\* equal to it, replaced the best on its lower latency
C13_Witness ==
    /\ Len(best_log) >= 2
    /\ IsSome(best_log[1])
    /\ best_log[2] # best_log[1]
    /\ Unwrap(best_log[2]).download_speed_mbps = Some(2)
    /\ Unwrap(best_log[1]).download_speed_mbps = Some(4)

\* C14: a record_result call with result R while no DNS best exists makes R
\* the best exactly when R has no error and has a latency or a throughput;
\* otherwise the best pointer stays unset.
C14_FirstBest ==
    [][(CallRecordResult /\ IsNone(app.best_result)) =>
          LET R == Unwrap(app'.last_result) IN
          IF IsNone(R.error) /\ (IsSome(R.latency) \/ IsSome(R.download_speed_mbps))
          THEN app'.best_result = Some(R)
          ELSE app'.best_result = None]_vars

\* a result with a latency and an error left the best unset, and the next
\* result, with a latency only and no error, became the best
C14_Witness ==
    /\ app.state = "Testing" /\ Len(app.results) = 2
    /\ best_log[1] = None
    /\ IsSome(app.results[1].latency) /\ IsSome(app.results[1].error)
    /\ best_log[2] = Some(app.results[2])
    /\ IsNone(app.results[2].download_speed_mbps)

\* C15: a record_result call with a result that has neither latency nor
\* throughput leaves the DNS best pointer as it was, set or unset, whatever
\* the result's error; a record_mirror_result call with a result without
\* throughput leaves the mirror best pointer as it was.
C15_NonCompetitive ==
    [][/\ (CallRecordResult
             /\ IsNone(Unwrap(app'.last_result).latency)
             /\ IsNone(Unwrap(app'.last_result).download_speed_mbps))
          => app'.best_result = app.best_result
       /\ (CallRecordMirrorResult
             /\ IsNone(Unwrap(app'.last_mirror_result).speed_mbps))
          => app'.best_mirror_result = app.best_mirror_result]_vars

\* a result with no error and no metric was recorded first and the best
\* stayed unset; the second result, with a metric, is the best
C15_Witness ==
    /\ app.state = "Testing" /\ Len(app.results) = 2
    /\ IsNone(app.results[1].error)
    /\ IsNone(app.results[1].latency)
    /\ IsNone(app.results[1].download_speed_mbps)
    /\ best_log = << None, Some(app.results[2]) >>

\* C16: a record_mirror_result call with result B while a mirror best A
\* exists makes B the best exactly when B has throughput and A has none or
\* a strictly smaller one; otherwise (equal throughput included) the best
\* stays A.
C16_MirrorReplacementRule ==
    [][(CallRecordMirrorResult /\ IsSome(app.best_mirror_result)) =>
          LET A == Unwrap(app.best_mirror_result)
              B == Unwrap(app'.last_mirror_result) IN
          IF /\ IsSome(B.speed_mbps)
             /\ (IsNone(A.speed_mbps) \/ Unwrap(B.speed_mbps) > Unwrap(A.speed_mbps))
          THEN app'.best_mirror_result = Some(B)
          ELSE app'.best_mirror_result = Some(A)]_vars

\* two mirrors of different names measured the same throughput, and the
\* earlier one is the best
C16_Witness ==
    /\ app.state = "Testing" /\ Len(app.mirror_results) = 2
    /\ app.mirror_results[1].name # app.mirror_results[2].name
    /\ IsSome(app.mirror_results[1].speed_mbps)
    /\ app.mirror_results[2].speed_mbps = app.mirror_results[1].speed_mbps
    /\ IsNone(app.mirror_results[2].error)
    /\ app.best_mirror_result = Some(app.mirror_results[1])

\* C17: after a DNS run of results the probe can return, if some recorded
\* result has a throughput then the best pointer has one too, and no
\* recorded throughput exceeds the best's by more than the tolerance.
C17_FinalBestTop ==
    (/\ app.state = "Results" /\ app.mode = "Dns"
     /\ AllProbeShaped(app.results)
     /\ \E i \in 1..Len(app.results) : IsSome(app.results[i].download_speed_mbps))
    => /\ IsSome(app.best_result)
       /\ IsSome(Unwrap(app.best_result).download_speed_mbps)
       /\ \A i \in 1..Len(app.results) :
             IsSome(app.results[i].download_speed_mbps) =>
                Unwrap(app.results[i].download_speed_mbps)
                  - Unwrap(Unwrap(app.best_result).download_speed_mbps) <= Tolerance

\* the comparator of sort_results that orders the active mode's results
\* under a sort column, "" when those results have no such field (Name for
\* DNS results, Ip and Latency for mirror results): then no two results
\* differ under the column
ActiveSortKey(a) ==
    IF a.mode = "Dns"
    THEN CASE a.sort_column = "Ip" -> "Ip"
           [] a.sort_column = "Latency" -> "Latency"
           [] a.sort_column = "DownloadSpeed" -> "DownloadSpeed"
           [] a.sort_column = "Name" -> ""
    ELSE CASE a.sort_column = "DownloadSpeed" -> "Speed"
           [] a.sort_column = "Name" -> "Name"
           [] a.sort_column \in { "Ip", "Latency" } -> ""

\* how x and y compare under the active column and direction
ActiveCmp(a, x, y) ==
    IF ActiveSortKey(a) = "" THEN 0
    ELSE cmp_by(ActiveSortKey(a), a.sort_ascending, x, y)

C19_DnsRingExcludesName ==
    app.mode = "Dns" => app.sort_column \in { "Ip", "Latency", "DownloadSpeed" }

SortColumns == { "Ip", "Latency", "DownloadSpeed", "Name" }

\* C20: for the results lists of every state, every sort column and both
\* directions, sort_results applied twice gives what sort_results applied
\* once gives.
C20_SortIdempotent ==
    \A column \in SortColumns, ascending \in BOOLEAN :
        LET a == [app EXCEPT !.sort_column = column, !.sort_ascending = ascending] IN
        sort_results(sort_results(a)) = sort_results(a)

\* results sorted by latency ascending after an earlier sort by another
\* column, two of them with the same latency and different addresses
C20_Witness ==
    /\ app.state = "Results" /\ app.mode = "Dns"
    /\ app.sort_column = "Latency" /\ app.sort_ascending
    /\ Len(app.results) = 3
    /\ app.results[2].latency = app.results[3].latency
    /\ app.results[1].latency # app.results[2].latency
    /\ app.results[2].ip = << 9, 9, 9, 9 >>
    /\ app.results[3].ip = << 1, 1, 1, 1 >>

\* no two entries of the active results list compare equal under the active
\* column
DistinctKeys(a) ==
    LET rs == ActiveResults(a) IN
    \A i, j \in 1..Len(rs) : (i # j) => ActiveCmp(a, rs[i], rs[j]) # 0

\* C21: in state Results, when the keys of the active results under the
\* active column are pairwise distinct, toggle_sort_direction applied twice
\* gives back the sort direction and the exact order of the list.
C21_ToggleRoundTrip ==
    (app.state = "Results" /\ DistinctKeys(app)) =>
        LET once == toggle_sort_direction(app)
            twice == toggle_sort_direction(once) IN
        /\ twice.sort_ascending = app.sort_ascending
        /\ ActiveResults(twice) = ActiveResults(app)

\* three results of distinct latencies stand in ascending order after a
\* toggle, and one more toggle reorders them
C21_Witness ==
    /\ app.state = "Results" /\ app.mode = "Dns"
    /\ app.sort_column = "Latency" /\ app.sort_ascending
    /\ Len(app.results) = 3 /\ DistinctKeys(app)
    /\ ActiveResults(toggle_sort_direction(app)) # app.results

\* sort_results keeps, among the active results of a, the relative order of
\* the entries that compare equal to one another under the active column
KeepsTieOrder(a) ==
    LET before == ActiveResults(a)
        after == ActiveResults(sort_results(a)) IN
    \A i \in 1..Len(before) :
        LET Tied(e) == ActiveCmp(a, before[i], e) = 0 IN
        SelectSeq(after, Tied) = SelectSeq(before, Tied)

\* C22: for the results lists of every state, every sort column and both
\* directions, sort_results keeps the prior relative order of any two
\* results whose keys compare equal under that column.
C22_StableSort ==
    \A column \in SortColumns, ascending \in BOOLEAN :
        KeepsTieOrder([app EXCEPT !.sort_column = column, !.sort_ascending = ascending])

RevSeq(s) == [i \in 1..Len(s) |-> s[Len(s) + 1 - i]]

\* results sorted by throughput descending, the first two tied: the list is
\* not the reversal of the ascending sort
C22_Witness ==
    /\ app.state = "Results" /\ app.mode = "Dns"
    /\ app.sort_column = "DownloadSpeed" /\ ~app.sort_ascending
    /\ Len(app.results) = 3
    /\ app.results[1].download_speed_mbps = app.results[2].download_speed_mbps
    /\ app.results[2].download_speed_mbps # app.results[3].download_speed_mbps
    /\ app.results # RevSeq(toggle_sort_direction(app).results)

\* C23: when the DNS results have been sorted by latency ascending, every
\* result whose latency is absent is placed after every result whose latency
\* is present.
C23_MissingLatencyLast ==
    (/\ app.state = "Results" /\ app.mode = "Dns"
     /\ app.sort_column = "Latency" /\ app.sort_ascending) =>
        \A i, j \in 1..Len(app.results) :
            (IsNone(app.results[i].latency) /\ IsSome(app.results[j].latency)) => j < i

\* C24: when the DNS results have been sorted by address ascending, they are
\* ordered by string comparison of the address text, not by numeric address
\* value.
C24_AddressLexicographic ==
    (/\ app.state = "Results" /\ app.mode = "Dns"
     /\ app.sort_column = "Ip" /\ app.sort_ascending) =>
        \A i, j \in 1..Len(app.results) :
            (i < j) =>
                CmpSeq(IpToString(app.results[i].ip), IpToString(app.results[j].ip)) <= 0

\* 10.0.0.1 is placed before 9.9.9.9
C24_Witness ==
    /\ app.state = "Results" /\ app.mode = "Dns"
    /\ app.sort_column = "Ip" /\ app.sort_ascending
    /\ \E i, j \in 1..Len(app.results) :
        /\ i < j
        /\ app.results[i].ip = <<10, 0, 0, 1>>
        /\ app.results[j].ip = <<9, 9, 9, 9>>

\* the list of a that results of the kind of r are recorded in
ListFor(a, r) == IF r.tag = "Dns" THEN a.results ELSE a.mirror_results

IsMember(x, s) == \E i \in 1..Len(s) : s[i] = x

\* C25: when update drains a result that carries an error, the result is
\* added to the results list, the cursor goes up by one, and the next
\* candidate is dispatched while the run stays in Testing, or, after the last
\* candidate, the run finishes: the same as for a result without error.
C25_ErrorsDoNotAbort ==
    [][(/\ upc = "update" /\ rq # << >> /\ rq' = Tail(rq)
        /\ IsSome(Head(rq).error)) =>
          LET r == Head(rq)
              total == Len(targets_of(app)) IN
          /\ app'.testing_index = app.testing_index + 1
          /\ Len(ListFor(app', r)) = Len(ListFor(app, r)) + 1
          /\ IsMember(r, ListFor(app', r))
          /\ IF app.testing_index + 1 < total
             THEN /\ app'.state = "Testing"
                  /\ ListFor(app', r) = Append(ListFor(app, r), r)
                  /\ tq' = << targets_of(app)[app.testing_index + 2] >>
             ELSE /\ app'.state = "Results"
                  /\ tq' = tq]_vars

\* the first candidate failed, its result is recorded and the second
\* candidate has been dispatched
C25_Witness ==
    /\ app.state = "Testing" /\ app.testing_index = 1
    /\ Len(ActiveResults(app)) = 1
    /\ IsSome(ActiveResults(app)[1].error)
    /\ tq = << targets_of(app)[2] >>

\* the cursor values 0 .. n-1 in order
FirstIndices(n) == [i \in 1..n |-> i - 1]

\* the steps of the worker on one target: received once, probed once by the
\* matching probe, one result sent
OneAttempt ==
    /\ (wpc # "probe" /\ wpc' = "probe") =>
          /\ wpc = "recv" /\ tq # << >>
          /\ wtarget' = Some(Head(tq)) /\ tq' = Tail(tq)
    /\ (wpc = "probe" /\ wpc' # "probe") =>
          /\ wpc' = "send" /\ wtarget' = wtarget
          /\ IsSome(wresult') /\ Unwrap(wresult') \in Probe(Unwrap(wtarget))
    /\ (wpc = "send" /\ wpc' # "send") =>
          /\ wpc' = "recv" /\ wtarget' = None /\ wresult' = None
          /\ running => rq' = Append(rq, Unwrap(wresult))
    /\ (wpc = "send" /\ wpc' = "send") => UNCHANGED << wtarget, wresult, rq >>

\* C26: the worker probes every target it receives once, with the matching
\* probe, and sends one result for it; the cursor values dispatched during a
\* run are 0, 1, 2, ... in order, each once, and a completed run has
\* dispatched every candidate index.
C26_OneAttemptOneResult ==
    /\ [](app.state = "Testing" => dispatched = FirstIndices(app.testing_index + 1))
    /\ [](app.state = "Results" => dispatched = FirstIndices(Len(Candidates(app))))
    /\ [][OneAttempt]_vars

\* a completed run of three candidates, the second of which failed
C26_Witness ==
    /\ app.state = "Results" /\ app.mode = "Mirror"
    /\ dispatched = << 0, 1, 2 >>
    /\ \E i \in 1..Len(app.mirror_results) : IsSome(app.mirror_results[i].error)
    /\ wpc = "recv" /\ wtarget = None

TimedOut(r) == r.tag = "Dns" /\ r.error = Some("Test timed out (exceeded 7.5s)")

\* a timed-out result carries neither latency nor throughput
NoPartialProgress(r) ==
    TimedOut(r) => IsNone(r.latency) /\ IsNone(r.download_speed_mbps)

\* C27: a DNS probe that exceeds its deadline returns, whatever its two
\* stages had done, one result for the candidate with the timeout error and
\* with latency and throughput absent; so every timed-out result the worker
\* holds, the result channel carries or the App has recorded has neither.
C27_TimeoutDiscardsProgress ==
    /\ (wpc = "probe" /\ Unwrap(wtarget).tag = "Dns") =>
          \A lat \in LatencyOutcomes, spd \in SpeedOutcomes :
              LET r == run_full_test(Unwrap(wtarget).ip, lat, spd, TRUE) IN
              /\ r.ip = Unwrap(wtarget).ip
              /\ TimedOut(r) /\ NoPartialProgress(r)
    /\ IsSome(wresult) => NoPartialProgress(Unwrap(wresult))
    /\ \A i \in 1..Len(rq) : NoPartialProgress(rq[i])
    /\ \A i \in 1..Len(app.results) : NoPartialProgress(app.results[i])
    /\ IsSome(app.last_result) => NoPartialProgress(Unwrap(app.last_result))

\* a completed run recorded a timed-out result for its second candidate and
\* a measured latency for its first
C27_Witness ==
    /\ app.mode = "Dns" /\ app.state = "Results"
    /\ Len(app.results) = 2
    /\ \E i, j \in 1..2 :
          /\ TimedOut(app.results[i])
          /\ app.results[i].ip = app.dns_servers[2]
          /\ IsSome(app.results[j].latency)
          /\ app.results[j].ip = app.dns_servers[1]

\* C28: while the run state is Testing, a step either is the quit (the App
\* only gets should_quit set and run_app returns), or leaves the App as it
\* is, or drains one result: only then does the cursor move, by one, and
\* mode, candidate lists and sort settings stay as they are.
C28_NoCancellation ==
    [][app.state = "Testing" =>
          \/ /\ running /\ ~running'
             /\ app' = [app EXCEPT !.should_quit = TRUE]
          \/ app' = app
          \/ /\ upc = "update" /\ rq # << >> /\ rq' = Tail(rq)
             /\ app'.testing_index = app.testing_index + 1
             /\ app'.mode = app.mode
             /\ app'.dns_servers = app.dns_servers
             /\ app'.mirrors = app.mirrors
             /\ app'.sort_column = app.sort_column
             /\ app'.sort_ascending = app.sort_ascending
             /\ app'.should_quit = app.should_quit]_vars

\* a key other than quit was read while the second candidate is being
\* probed: update found nothing to drain and the run is where it was
C28_Witness ==
    /\ app.state = "Testing" /\ running /\ upc = "update"
    /\ app.testing_index = 1 /\ Len(ActiveResults(app)) = 1
    /\ wpc = "probe" /\ rq = << >> /\ tq = << >>

\* C29: wherever the apply key is handled, apply_fastest_dns leaves a status
\* message, whatever set_system_dns returns; the message is flagged as error
\* exactly when there is no best DNS result or the change failed, it is the
\* success message naming the best address exactly when the change
\* succeeded, and nothing else of the App changes.
C29_ApplySurfaced ==
    app.state = "Results" =>
        \A set_ok \in BOOLEAN :
            LET after == apply_fastest_dns(app, set_ok)
                failed == IsNone(app.best_result) \/ ~set_ok IN
            /\ IsSome(after.status_message)
            /\ Unwrap(after.status_message).is_error = failed
            /\ (Unwrap(after.status_message).kind = "Successfully set system DNS to") = ~failed
            /\ ~failed => Unwrap(after.status_message).ip = Unwrap(app.best_result).ip
            /\ after = [app EXCEPT !.status_message = after.status_message]

\* the operator applied a best result and the change failed: the failure is
\* on screen, the best pointer and the results are still there
C29_Witness ==
    /\ app.state = "Results" /\ IsSome(app.best_result)
    /\ Len(app.results) = 2
    /\ IsSome(app.status_message)
    /\ Unwrap(app.status_message).kind = "Failed to set system DNS"
    /\ Unwrap(app.status_message).is_error

\* C30: no input validation error ends the program: main never returns an
\* error for a bad address file, and an address text rejected in the Input
\* state (bad syntax, duplicate) leaves the App in Input with the error shown
\* and the list as it was.
C30_ValidationNeverFatal ==
    /\ upc # "exit_err"
    /\ (upc = "loop" /\ running /\ app.state = "Input") =>
          \A text \in InputTexts :
              LET after == add_dns_server(app, text) IN
              /\ after.state = "Input"
              /\ after.dns_servers = app.dns_servers => IsSome(after.error_message)

\* throughput present only with latency present and no error
Staged(r) ==
    (r.tag = "Dns" /\ IsSome(r.download_speed_mbps)) =>
        IsSome(r.latency) /\ IsNone(r.error)

\* C31: for the target the worker probes, a failed latency stage gives, for
\* every outcome the download stage could have had, the same result: an error
\* with latency and throughput absent; a measured latency with a failed
\* download stage gives latency present, throughput absent and an error.
\* So in every DNS result the worker holds, the result channel carries or
\* the App has recorded, throughput present implies latency present and no
\* error.
C31_ProbeStaging ==
    /\ (wpc = "probe" /\ Unwrap(wtarget).tag = "Dns") =>
          LET ip == Unwrap(wtarget).ip IN
          /\ \A spd \in SpeedOutcomes :
                LET r == run_full_test(ip, Err, spd, FALSE) IN
                /\ r = run_full_test(ip, Err, Err, FALSE)
                /\ IsSome(r.error) /\ IsNone(r.latency)
                /\ IsNone(r.download_speed_mbps)
          /\ \A l \in Latencies :
                LET r == run_full_test(ip, Ok(l), Err, FALSE) IN
                /\ r.latency = Some(l) /\ IsNone(r.download_speed_mbps)
                /\ IsSome(r.error)
    /\ IsSome(wresult) => Staged(Unwrap(wresult))
    /\ \A i \in 1..Len(rq) : Staged(rq[i])
    /\ \A i \in 1..Len(app.results) : Staged(app.results[i])

\* a completed run recorded one result whose latency stage failed and one
\* whose download stage failed
C31_Witness ==
    /\ app.mode = "Dns" /\ app.state = "Results"
    /\ \E i, j \in 1..Len(app.results) :
          /\ app.results[i].error = Some("Latency test failed")
          /\ IsNone(app.results[i].latency)
          /\ app.results[j].error = Some("Download test failed")
          /\ IsSome(app.results[j].latency)

\* the candidate the cursor of a is at
CurrentCandidate(a) == Candidates(a)[a.testing_index + 1]

\* C32: while the run state is Input or Results both channels are empty and
\* the worker holds nothing and waits for a target (or has left its loop
\* once run_app returned); and whatever is in flight while Testing belongs to
\* the candidate at the cursor of this run.  So no result of an earlier run
\* is recorded into a later one.
C32_QuiescentOutsideTesting ==
    /\ app.state \in { "Input", "Results" } =>
          /\ tq = << >> /\ rq = << >>
          /\ wtarget = None /\ wresult = None
          /\ IF running THEN wpc = "recv" ELSE wpc \in { "recv", "done" }
    /\ (app.state = "Testing" /\ running) =>
          LET k == KeyOfCandidate(app, CurrentCandidate(app)) IN
          /\ \A i \in 1..Len(tq) : tq[i] = targets_of(app)[app.testing_index + 1]
          /\ IsSome(wtarget) => Unwrap(wtarget) = targets_of(app)[app.testing_index + 1]
          /\ IsSome(wresult) => KeyOfResult(Unwrap(wresult)) = k
          /\ \A i \in 1..Len(rq) : KeyOfResult(rq[i]) = k

\* back in Input after a completed run of two candidates and a reset: the
\* channels are empty and the worker waits
C32_Witness ==
    /\ app.state = "Input" /\ running
    /\ dispatched = << 0, 1 >>
    /\ wpc = "recv" /\ tq = << >> /\ rq = << >>

\* C33: the DNS best pointer, if set, equals an entry of the DNS results
\* list, and the mirror best pointer, if set, equals an entry of the mirror
\* results list.
C33_BestInResults ==
    /\ IsSome(app.best_result) => IsMember(Unwrap(app.best_result), app.results)
    /\ IsSome(app.best_mirror_result) =>
          IsMember(Unwrap(app.best_mirror_result), app.mirror_results)

\* a later run, after a completed run and a reset, has recorded its first
\* result and made it the best
C33_Witness ==
    /\ app.state = "Testing" /\ app.mode = "Dns"
    /\ app.sort_column = "Latency"
    /\ Len(app.results) = 1
    /\ app.best_result = Some(app.results[1])

\* C34: the cursor equals the length of the active mode's results list and
\* is at most the active mode's candidate count; in Results it equals the
\* candidate count, in Input it is 0.
C34_CursorInvariant ==
    /\ app.testing_index = Len(ActiveResults(app))
    /\ app.testing_index <= Len(Candidates(app))
    /\ app.state = "Results" => app.testing_index = Len(Candidates(app))
    /\ app.state = "Input" => app.testing_index = 0

\* a mirror run over three candidates has recorded two results
C34_Witness ==
    /\ app.state = "Testing" /\ app.mode = "Mirror"
    /\ app.testing_index = 2 /\ Len(app.mirrors) = 3
    /\ rq # << >>

\* C35: while the run state is Testing the active mode's candidate list is
\* not empty and the cursor is below its length: no state is Testing with
\* the cursor at the candidate count.
C35_TestingHasWork ==
    app.state = "Testing" =>
        /\ Candidates(app) # << >>
        /\ app.testing_index < Len(Candidates(app))

\* update has just recorded the last result of a run of two candidates and
\* is still in its loop: the run state is Results already
C35_Witness ==
    /\ app.state = "Results" /\ upc = "update"
    /\ app.testing_index = 2 /\ Len(Candidates(app)) = 2
    /\ rq = << >>

\* C36: with results the DNS probe can return recorded, the DNS best pointer,
\* if set, has no error.
C36_BestHasNoError ==
    (AllProbeShaped(app.results) /\ IsSome(app.best_result)) =>
        IsNone(Unwrap(app.best_result).error)

\* the first result became the best; the second, whose download stage failed
\* after a lower latency, was recorded and did not replace it
C36_Witness ==
    /\ app.mode = "Dns" /\ Len(app.results) >= 2
    /\ app.best_result = Some(app.results[1])
    /\ app.last_result = Some(app.results[2])
    /\ IsSome(app.results[2].error) /\ IsSome(app.results[2].latency)
    /\ Unwrap(app.results[2].latency) < Unwrap(app.results[1].latency)

OtherMode(m) == IF m = "Dns" THEN "Mirror" ELSE "Dns"

C38_ModeIsolation ==
    /\ app.mode = "Mirror" =>
          /\ app.results = << >> /\ app.best_result = None
          /\ \A set_ok \in BOOLEAN :
                apply_fastest_dns(app, set_ok) =
                    [app EXCEPT !.status_message =
                        Some([kind |-> "No valid test results available.",
                              ip |-> << >>, is_error |-> TRUE])]
    /\ app.mode = "Dns" =>
          /\ app.mirror_results = << >> /\ app.best_mirror_result = None

\* apply was pressed after a mirror run that has a best mirror, following an
\* earlier DNS run
C38_Witness ==
    /\ app.mode = "Mirror" /\ app.state = "Results"
    /\ IsSome(app.best_mirror_result)
    /\ app.sort_column = "Latency"
    /\ IsSome(app.status_message)
    /\ Unwrap(app.status_message).kind = "No valid test results available."

Occurrences(x, s) == Cardinality({ i \in 1..Len(s) : s[i] = x })

\* s and t hold the same entries, each as often
SameEntries(s, t) ==
    /\ Len(s) = Len(t)
    /\ \A i \in 1..Len(s) : Occurrences(s[i], s) = Occurrences(s[i], t)

\* after differs from a at most in the order of the two results lists and in
\* the sort settings
OnlyReordered(a, after) ==
    /\ SameEntries(a.results, after.results)
    /\ SameEntries(a.mirror_results, after.mirror_results)
    /\ after.state = a.state /\ after.mode = a.mode
    /\ after.dns_servers = a.dns_servers /\ after.mirrors = a.mirrors
    /\ after.testing_index = a.testing_index
    /\ after.best_result = a.best_result
    /\ after.best_mirror_result = a.best_mirror_result

\* C39: sort_results, cycle_sort_column and toggle_sort_direction keep the
\* entries of each results list, each as often as before, and leave run
\* state, mode, candidate lists, cursor and both best pointers as they are.
C39_SortOnlyReorders ==
    /\ OnlyReordered(app, sort_results(app))
    /\ OnlyReordered(app, cycle_sort_column(app))
    /\ OnlyReordered(app, toggle_sort_direction(app))

\* three DNS results, two of them with the same latency, put into another
\* order by the toggle
C39_Witness ==
    /\ app.state = "Results" /\ app.mode = "Dns"
    /\ app.sort_column = "Latency" /\ app.sort_ascending
    /\ Len(app.results) = 3
    /\ app.results[2].latency = app.results[3].latency
    /\ toggle_sort_direction(app).results # app.results
    /\ IsSome(app.best_result)

====
